---- MODULE Spec2Model ----
(***************************************************************************)
(* Model of socketio.Client.HandleEvents (tokongs/homely): one call that   *)
(* builds the connection address, dials the websocket, writes the          *)
(* Socket.IO connect frame and then loops reading Engine.IO frames,        *)
(* answering pings and delivering decoded events to the caller's handler.  *)
(*                                                                         *)
(* A frame is a sequence of one-character strings, so that the byte        *)
(* indexing s[0], s[1], s[2:] of the code is Go's indexing shifted by one. *)
(* An error value is the sequence of its messages, outermost wrap first;   *)
(* the nil error is the empty sequence.                                    *)
(***************************************************************************)
EXTENDS Integers, Sequences, FiniteSets, TLC

\* Number of frames the transport delivers in one call before it breaks.
MaxReads == 2

----------------------------------------------------------------------------
\* Text helpers.

Q == "\""

Digits == {"0", "1", "2", "3", "4", "5", "6", "7", "8", "9"}

Space == " "

\* s[from:] of Go, with from counted from 0.
SliceFrom(s, from) == SubSeq(s, from + 1, Len(s))

RECURSIVE TrimLeft(_)
TrimLeft(s) ==
    IF s # <<>> /\ Head(s) = Space THEN TrimLeft(Tail(s)) ELSE s

RECURSIVE TrimRight(_)
TrimRight(s) ==
    IF s # <<>> /\ s[Len(s)] = Space
    THEN TrimRight(SubSeq(s, 1, Len(s) - 1))
    ELSE s

Trim(s) == TrimRight(TrimLeft(s))

----------------------------------------------------------------------------
\* Protocol constants.

EIOPacketTypeOpen == 0
EIOPacketTypeClose == 1
EIOPacketTypePing == 2
EIOPacketTypePong == 3
EIOPacketTypeMessage == 4
EIOPacketTypeUpgrade == 5
EIOPacketTypeNoop == 6

PacketTypeConnect == 0
PacketTypeDisconnect == 1
PacketTypeEvent == 2

\* The frames the client writes.
ConnectFrame == <<"4", "0">>
PongFrame == <<"3">>

\* strconv.Atoi failed.
AtoiErr == -1

DigitValue(c) ==
    CASE c = "0" -> 0 [] c = "1" -> 1 [] c = "2" -> 2 [] c = "3" -> 3
      [] c = "4" -> 4 [] c = "5" -> 5 [] c = "6" -> 6 [] c = "7" -> 7
      [] c = "8" -> 8 [] c = "9" -> 9

\* Atoi with its error dropped: Go returns 0 next to the error.
AtoiIgnoringError(c) == IF c \in Digits THEN DigitValue(c) ELSE 0

\* strconv.Atoi(string(s[i])) on one character: its value, or AtoiErr.
Atoi(c) == IF c \in Digits THEN DigitValue(c) ELSE AtoiErr

----------------------------------------------------------------------------
\* encoding/json on the texts the frames carry: null, unsigned integers,
\* strings without escapes, arrays and objects, with blanks between tokens.

\* Splits s at the separators sep that are outside strings and outside
\* nested arrays and objects; the pieces are not trimmed.
RECURSIVE SplitTop(_, _, _, _, _, _)
SplitTop(s, sep, depth, inStr, cur, acc) ==
    IF s = <<>> THEN Append(acc, cur)
    ELSE LET c == Head(s)
             r == Tail(s)
         IN  IF inStr
             THEN SplitTop(r, sep, depth, c # Q, Append(cur, c), acc)
             ELSE IF c = Q
             THEN SplitTop(r, sep, depth, TRUE, Append(cur, c), acc)
             ELSE IF c \in {"[", "{"}
             THEN SplitTop(r, sep, depth + 1, FALSE, Append(cur, c), acc)
             ELSE IF c \in {"]", "}"}
             THEN SplitTop(r, sep, depth - 1, FALSE, Append(cur, c), acc)
             ELSE IF c = sep /\ depth = 0
             THEN SplitTop(r, sep, depth, FALSE, <<>>, Append(acc, cur))
             ELSE SplitTop(r, sep, depth, FALSE, Append(cur, c), acc)

\* The raw element texts of the inside of an array, blanks around each removed.
Elements(inner) ==
    IF Trim(inner) = <<>> THEN <<>>
    ELSE LET parts == SplitTop(inner, ",", 0, FALSE, <<>>, <<>>)
         IN  [i \in 1..Len(parts) |-> Trim(parts[i])]

IsNull(v) == v = <<"n", "u", "l", "l">>

IsNumber(v) ==
    /\ v # <<>>
    /\ \A i \in 1..Len(v) : v[i] \in Digits
    /\ (Len(v) > 1 => v[1] # "0")

IsString(v) ==
    /\ Len(v) >= 2
    /\ v[1] = Q
    /\ v[Len(v)] = Q
    /\ \A i \in 2..(Len(v) - 1) : v[i] # Q

IsBracketed(v, open, close) ==
    /\ Len(v) >= 2
    /\ v[1] = open
    /\ v[Len(v)] = close

Inside(v) == SubSeq(v, 2, Len(v) - 1)

\* v is one well-formed JSON value (no blanks around it).
RECURSIVE ValidValue(_)
ValidValue(v) ==
    \/ IsNull(v)
    \/ IsNumber(v)
    \/ IsString(v)
    \/ /\ IsBracketed(v, "[", "]")
       /\ LET es == Elements(Inside(v))
          IN  \A i \in 1..Len(es) : ValidValue(es[i])
    \/ /\ IsBracketed(v, "{", "}")
       /\ LET ms == Elements(Inside(v))
          IN  \A i \in 1..Len(ms) :
                LET kv == SplitTop(ms[i], ":", 0, FALSE, <<>>, <<>>)
                IN  /\ Len(kv) = 2
                    /\ IsString(Trim(kv[1]))
                    /\ ValidValue(Trim(kv[2]))

\* json.Unmarshal(text, &values) with values []json.RawMessage: an array
\* gives its elements' texts, null gives the nil slice, anything else fails.
UnmarshalRawArray(text) ==
    LET v == Trim(text)
    IN  IF ~ValidValue(v) THEN [ok |-> FALSE, values |-> <<>>]
        ELSE IF IsNull(v) THEN [ok |-> TRUE, values |-> <<>>]
        ELSE IF IsBracketed(v, "[", "]")
        THEN [ok |-> TRUE, values |-> Elements(Inside(v))]
        ELSE [ok |-> FALSE, values |-> <<>>]

\* json.Unmarshal(raw, &name) with name string: a string gives its content,
\* null leaves name empty without an error, anything else fails.
UnmarshalString(raw) ==
    IF IsString(raw) THEN [ok |-> TRUE, str |-> Inside(raw)]
    ELSE IF IsNull(raw) THEN [ok |-> TRUE, str |-> <<>>]
    ELSE [ok |-> FALSE, str |-> <<>>]

\* json.RawMessage.MarshalJSON: the text as it is, "null" for a nil message.
MarshalRaw(raw) ==
    IF raw = <<>> THEN <<"n", "u", "l", "l">> ELSE raw

----------------------------------------------------------------------------
\* Frame decoding: the body of the read loop between the read and the
\* handler call, as a function of the frame alone.

SkipFrame == [kind |-> "skip", name |-> <<>>, data |-> <<>>]

\* The data taken from the wrong element of the array.
EventOfValuesFirstAsData(values) ==
    LET name == UnmarshalString(values[1])
    IN  IF ~name.ok THEN SkipFrame
        ELSE [kind |-> "event", name |-> name.str, data |-> MarshalRaw(values[1])]

\* Name from element 0, data from element 1 as its raw text.
EventOfValues(values) ==
    LET name == UnmarshalString(values[1])
    IN  IF ~name.ok THEN SkipFrame
        ELSE [kind |-> "event", name |-> name.str, data |-> MarshalRaw(values[2])]

\* An array of more than two elements is refused.
DecodeEventExactlyTwo(payload) ==
    LET u == UnmarshalRawArray(payload)
    IN  IF ~u.ok THEN SkipFrame
        ELSE IF Len(u.values) # 2 THEN SkipFrame
        ELSE EventOfValues(u.values)

DecodeEvent(payload) ==
    LET u == UnmarshalRawArray(payload)
    IN  IF ~u.ok THEN SkipFrame
        ELSE IF Len(u.values) < 2 THEN SkipFrame
        ELSE EventOfValues(u.values)

\* The ping test against the wrong packet type.
IsPingTestingPong(eioType) == eioType = EIOPacketTypePong

IsPing(eioType) == eioType = EIOPacketTypePing

Classify(s) ==
    IF Len(s) < 1 THEN SkipFrame
    ELSE LET eioType == Atoi(s[1])
         IN  IF eioType = AtoiErr THEN SkipFrame
             ELSE IF IsPing(eioType)
             THEN [kind |-> "ping", name |-> <<>>, data |-> <<>>]
             ELSE IF Len(s) < 2 THEN SkipFrame
             ELSE LET sioType == Atoi(s[2])
                  IN  IF sioType = AtoiErr THEN SkipFrame
                      ELSE IF sioType # PacketTypeEvent \/ Len(s) < 3 THEN SkipFrame
                      ELSE DecodeEvent(SliceFrom(s, 2))

----------------------------------------------------------------------------
\* Inputs.

\* "42" followed by a payload.
Event(payload) == <<"4", "2">> \o payload

PayloadA1 == <<"[", Q, "a", Q, ",", "1", "]">>

\* The frames the server may send.
Frames ==
    { <<>>,
      <<"0", "{", Q, "s", Q, ":", "1", "}">>,
      <<"1">>,
      <<"1", "2">> \o PayloadA1,
      <<"2">>,
      <<"2", "[", "]">>,
      <<"3">>,
      <<"4">>,
      <<"4", "0">>,
      <<"4", "1">>,
      <<"4", "2">>,
      <<"4", "x">>,
      <<"x", "2">> \o PayloadA1,
      <<"3", "2">> \o PayloadA1,
      <<"7", "2">> \o PayloadA1,
      Event(PayloadA1),
      Event(<<"[", Q, "b", Q, ",", " ", "[", "1", ",", "2", "]", " ", "]">>),
      Event(<<"[", Q, "a", Q, ",", "{", Q, "k", Q, ":", "1", "}", ",", "3", "]">>),
      Event(<<"[", Q, "a", Q, ",", "{", Q, "k", Q, ":", "1", "}", ",", "[", "4", "]", ",", Q, "c", Q, "]">>),
      Event(<<"[", Q, "a", Q, "]">>),
      Event(<<"[", "1", ",", "2", "]">>),
      Event(<<"[", "n", "u", "l", "l", ",", "1", "]">>),
      Event(<<"[", Q, "a", Q, ",", "1">>),
      Event(<<Q, "a", Q>>),
      Event(<<"n", "u", "l", "l">>) }

Nil == <<>>

\* What the caller's handler may return: nil, or an error of its own.
HandlerErr == <<"handler stop">>
HandlerRets == {Nil, HandlerErr}

Tokens == {"tok"}

\* The error passed on without its context.
ErrorfWithoutPrefix(prefix, err) == err

\* fmt.Errorf("<prefix>: %w", err)
Errorf(prefix, err) == <<prefix>> \o err

----------------------------------------------------------------------------
\* The call.

VARIABLES
    serverValid,   \* input: url.Parse accepts c.server
    tokenSource,   \* input: c.tokenSource != nil
    pc,            \* position of the call: parse, token, dial, handshake,
                   \* read, process, done
    query,         \* q, the query parameters of the address
    cancelled,     \* ctx has been cancelled by the caller
    connOpen,      \* conn is dialed and not closed
    deferred,      \* the deferred conn.CloseNow is registered
    cur,           \* s, the frame being processed
    reads,         \* frames read so far
    trace,         \* history: what the call has done, in order
    result,        \* the error the call returned
    returns        \* how many times the call returned

vars == <<serverValid, tokenSource, pc, query, cancelled, connOpen, deferred,
          cur, reads, trace, result, returns>>

\* One entry of the history; err is Nil when the operation succeeded.
Op(op, arg, err) == [op |-> op, arg |-> arg, err |-> err]

Init ==
    /\ serverValid \in BOOLEAN
    /\ tokenSource \in BOOLEAN
    /\ pc = "parse"
    /\ query = {}
    /\ cancelled = FALSE
    /\ connOpen = FALSE
    /\ deferred = FALSE
    /\ cur = <<>>
    /\ reads = 0
    /\ trace = <<>>
    /\ result = Nil
    /\ returns = 0

\* A return that skips the deferred close.
ReturnWithoutClose(err, tr) ==
    /\ pc' = "done"
    /\ result' = err
    /\ returns' = returns + 1
    /\ trace' = tr
    /\ UNCHANGED <<serverValid, tokenSource, query, cancelled, connOpen,
                   deferred, cur, reads>>

\* return err, after the history tr of this step: the deferred function
\* closes the connection.
Return(err, tr) ==
    /\ pc' = "done"
    /\ result' = err
    /\ returns' = returns + 1
    /\ trace' = IF deferred THEN Append(tr, Op("close", <<>>, Nil)) ELSE tr
    /\ connOpen' = IF deferred THEN FALSE ELSE connOpen
    /\ UNCHANGED <<serverValid, tokenSource, query, cancelled, deferred,
                   cur, reads>>

\* The call goes on to the position next.
Goto(next, tr) ==
    /\ pc' = next
    /\ trace' = tr
    /\ UNCHANGED <<serverValid, tokenSource, query, cancelled, connOpen,
                   deferred, cur, reads, result, returns>>

EngineIOVersion == "4"
Transport == "websocket"

\* The query parameters c.server already carries (u.Query()): the location
\* of Client.Stream and an older protocol version.
ServerQueries ==
    { {<<"locationId", "L1">>, <<"EIO", "3">>} }

\* fmt.Sprintf("Bearer %s", t.AccessToken)
Bearer(t) == <<"Bearer ", t>>

\* The parameter added next to the values the key already has.
QAdd(q, key, value) == q \cup {<<key, value>>}

\* q.Set(key, value): the key gets this value and no other.
QSet(q, key, value) == {p \in q : p[1] # key} \cup {<<key, value>>}

ParseURL ==
    /\ pc = "parse"
    /\ IF ~serverValid
       THEN LET err == <<"parse error">>
            IN  Return(Errorf("invalid url", err),
                       Append(trace, Op("parse", <<>>, err)))
       ELSE /\ \E base \in ServerQueries :
                 query' = QSet(QSet(base, "EIO", EngineIOVersion),
                               "transport", Transport)
            /\ pc' = "token"
            /\ trace' = Append(trace, Op("parse", <<>>, Nil))
            /\ UNCHANGED <<serverValid, tokenSource, cancelled, connOpen,
                           deferred, cur, reads, result, returns>>

\* A token failure that is ignored: the call goes on to dial.
GetTokenIgnoringError ==
    /\ pc = "token"
    /\ IF ~tokenSource
       THEN Goto("dial", trace)
       ELSE \/ Goto("dial", Append(trace, Op("token", <<>>, <<"token unavailable">>)))
            \/ \E t \in Tokens :
                 /\ query' = QSet(query, "token", Bearer(t))
                 /\ pc' = "dial"
                 /\ trace' = Append(trace, Op("token", <<t>>, Nil))
                 /\ UNCHANGED <<serverValid, tokenSource, cancelled, connOpen,
                                deferred, cur, reads, result, returns>>

GetToken ==
    /\ pc = "token"
    /\ IF ~tokenSource
       THEN Goto("dial", trace)
       ELSE \/ LET err == <<"token unavailable">>
               IN  Return(Errorf("get token", err),
                          Append(trace, Op("token", <<>>, err)))
            \/ \E t \in Tokens :
                 /\ query' = QSet(query, "token", Bearer(t))
                 /\ pc' = "dial"
                 /\ trace' = Append(trace, Op("token", <<t>>, Nil))
                 /\ UNCHANGED <<serverValid, tokenSource, cancelled, connOpen,
                                deferred, cur, reads, result, returns>>

\* A dial after which the loop starts at once, without the connect frame.
DialSkippingHandshake ==
    /\ pc = "dial"
    /\ \/ LET err == IF cancelled THEN <<"context canceled">> ELSE <<"dial failed">>
          IN  Return(Errorf("websocket dial", err),
                     Append(trace, Op("dial", query, err)))
       \/ /\ ~cancelled
          /\ connOpen' = TRUE
          /\ deferred' = TRUE
          /\ pc' = "read"
          /\ trace' = Append(trace, Op("dial", query, Nil))
          /\ UNCHANGED <<serverValid, tokenSource, query, cancelled, cur,
                         reads, result, returns>>

\* websocket.Dial fails when ctx is already cancelled, and may fail anyway.
Dial ==
    /\ pc = "dial"
    /\ \/ LET err == IF cancelled THEN <<"context canceled">> ELSE <<"dial failed">>
          IN  Return(Errorf("websocket dial", err),
                     Append(trace, Op("dial", query, err)))
       \/ /\ ~cancelled
          /\ connOpen' = TRUE
          /\ deferred' = TRUE
          /\ pc' = "handshake"
          /\ trace' = Append(trace, Op("dial", query, Nil))
          /\ UNCHANGED <<serverValid, tokenSource, query, cancelled, cur,
                         reads, result, returns>>

\* A failed write of the connect frame that is ignored.
HandshakeIgnoringError ==
    /\ pc = "handshake"
    /\ \/ Goto("read", Append(trace, Op("write", ConnectFrame, Nil)))
       \/ Goto("read", Append(trace, Op("write", ConnectFrame, <<"write failed">>)))

Handshake ==
    /\ pc = "handshake"
    /\ \/ Goto("read", Append(trace, Op("write", ConnectFrame, Nil)))
       \/ LET err == <<"write failed">>
          IN  Return(Errorf("socketio connect to namespace", err),
                     Append(trace, Op("write", ConnectFrame, err)))

\* A read that does not notice the cancellation and stays blocked.
ReadIgnoringCancel ==
    /\ pc = "read"
    /\ ~cancelled
    /\ \/ /\ reads < MaxReads
          /\ \E f \in Frames :
               /\ cur' = f
               /\ reads' = reads + 1
               /\ pc' = "process"
               /\ trace' = Append(trace, Op("read", f, Nil))
               /\ UNCHANGED <<serverValid, tokenSource, query, cancelled,
                              connOpen, deferred, result, returns>>
       \/ LET err == <<"EOF">>
          IN  Return(Errorf("read", err), Append(trace, Op("read", <<>>, err)))

\* conn.Read(ctx): the next frame, or an error; once ctx is cancelled the
\* read fails.
Read ==
    /\ pc = "read"
    /\ \/ /\ ~cancelled
          /\ reads < MaxReads
          /\ \E f \in Frames :
               /\ cur' = f
               /\ reads' = reads + 1
               /\ pc' = "process"
               /\ trace' = Append(trace, Op("read", f, Nil))
               /\ UNCHANGED <<serverValid, tokenSource, query, cancelled,
                              connOpen, deferred, result, returns>>
       \/ LET err == IF cancelled THEN <<"context canceled">> ELSE <<"EOF">>
          IN  Return(Errorf("read", err), Append(trace, Op("read", <<>>, err)))

\* A discarded frame that ends the call.
SkipFatal == Return(<<"bad frame">>, trace)

\* continue: the frame is discarded.
Skip == Goto("read", trace)

\* The ping is answered with a ping.
PongWritingPing ==
    \/ Goto("read", Append(trace, Op("write", <<"2">>, Nil)))
    \/ LET err == <<"write failed">>
       IN  Return(Errorf("eio pong", err),
                  Append(trace, Op("write", <<"2">>, err)))

Pong ==
    \/ Goto("read", Append(trace, Op("write", PongFrame, Nil)))
    \/ LET err == <<"write failed">>
       IN  Return(Errorf("eio pong", err),
                  Append(trace, Op("write", PongFrame, err)))

\* The handler's error is dropped and the loop goes on.
DeliverIgnoringError(name, data) ==
    \E ret \in HandlerRets :
        Goto("read", Append(trace, Op("handler", <<name, data>>, ret)))

\* The handler's error ends the call, which returns nil.
DeliverReturningNil(name, data) ==
    \E ret \in HandlerRets :
        LET tr == Append(trace, Op("handler", <<name, data>>, ret))
        IN  IF ret # Nil THEN Return(Nil, tr) ELSE Goto("read", tr)

\* h(name, string(data)), and return of its error.
Deliver(name, data) ==
    \E ret \in HandlerRets :
        LET tr == Append(trace, Op("handler", <<name, data>>, ret))
        IN  IF ret # Nil THEN Return(ret, tr) ELSE Goto("read", tr)

\* Events are delivered only once the server has acknowledged the namespace
\* with a "40" frame; before that they are discarded.
ProcessAfterConnectAck ==
    /\ pc = "process"
    /\ LET d == Classify(cur)
           acked == \E i \in 1..Len(trace) :
                       /\ trace[i].op = "read"
                       /\ trace[i].err = Nil
                       /\ trace[i].arg = ConnectFrame
       IN  CASE d.kind = "skip" -> Skip
             [] d.kind = "ping" -> Pong
             [] d.kind = "event" /\ acked -> Deliver(d.name, d.data)
             [] d.kind = "event" /\ ~acked -> Skip

\* The rest of one iteration of the loop, after the read.
Process ==
    /\ pc = "process"
    /\ LET d == Classify(cur)
       IN  CASE d.kind = "skip" -> Skip
             [] d.kind = "ping" -> Pong
             [] d.kind = "event" -> Deliver(d.name, d.data)

\* The caller cancels ctx.
Cancel ==
    /\ pc # "done"
    /\ ~cancelled
    /\ cancelled' = TRUE
    /\ UNCHANGED <<serverValid, tokenSource, pc, query, connOpen, deferred,
                   cur, reads, trace, result, returns>>

Next ==
    \/ ParseURL
    \/ GetToken
    \/ Dial
    \/ Handshake
    \/ Read
    \/ Process
    \/ Cancel

Spec == Init /\ [][Next]_vars

\* The goroutine running the call is scheduled as long as it can take a
\* step, and the handler returns.  Process is enabled exactly at the position
\* "process", so its weak fairness is written out with that position.
FairSpec ==
    /\ Spec
    /\ WF_vars(ParseURL \/ GetToken \/ Dial \/ Handshake \/ Read)
    /\ ([]<>(pc # "process") \/ []<><<Process>>_vars)

----------------------------------------------------------------------------
\* Client.Stream: the same call, with the handler that decodes the events
\* named "event" and hands them to the user's callback.

Str(chars) == <<Q>> \o chars \o <<Q>>

EventName == <<"e", "v", "e", "n", "t">>

TypeKey == <<"t", "y", "p", "e">>
DataKey == <<"d", "a", "t", "a">>

\* The members of a JSON object as pairs of key and raw value.
Members(obj) ==
    LET ms == Elements(Inside(obj))
    IN  [i \in 1..Len(ms) |->
            LET kv == SplitTop(ms[i], ":", 0, FALSE, <<>>, <<>>)
            IN  <<Inside(Trim(kv[1])), Trim(kv[2])>>]

\* json.Unmarshal([]byte(msg), &e) with e Event, on a valid JSON text: null
\* changes nothing, an object is accepted when "type" is a string or null
\* and "data" is an object or null (unknown keys are ignored; the frames
\* carry no field of EventData), anything else is a type error.
UnmarshalEvent(msg) ==
    IF IsNull(msg) THEN [ok |-> TRUE]
    ELSE IF IsBracketed(msg, "{", "}")
    THEN [ok |-> \A i \in 1..Len(Members(msg)) :
                    LET k == Members(msg)[i][1]
                        v == Members(msg)[i][2]
                    IN  /\ (k = TypeKey => IsString(v) \/ IsNull(v))
                        /\ (k = DataKey => IsBracketed(v, "{", "}") \/ IsNull(v))]
    ELSE [ok |-> FALSE]

\* The handler without the test of the name.
StreamHandlerAnyName(name, msg) ==
    IF ~UnmarshalEvent(msg).ok
    THEN [ret |-> Errorf("unmarshal event", <<"json error">>), callback |-> FALSE]
    ELSE [ret |-> Nil, callback |-> TRUE]

\* The handler Stream passes to HandleEvents: what it returns and whether
\* it calls h(e).
StreamHandler(name, msg) ==
    IF name # EventName THEN [ret |-> Nil, callback |-> FALSE]
    ELSE IF ~UnmarshalEvent(msg).ok
    THEN [ret |-> Errorf("unmarshal event", <<"json error">>), callback |-> FALSE]
    ELSE [ret |-> Nil, callback |-> TRUE]

\* The frames the Homely server may send.
StreamFrames ==
    { <<"2">>,
      <<"4", "0">>,
      Event(<<"[">> \o Str(EventName) \o <<",", "{">> \o Str(TypeKey)
                \o <<":">> \o Str(<<"a">>) \o <<"}", "]">>),
      Event(<<"[">> \o Str(EventName) \o <<",", "{">> \o Str(TypeKey)
                \o <<":", "1", "}", "]">>),
      Event(<<"[">> \o Str(EventName) \o <<",", "7", "]">>),
      Event(<<"[">> \o Str(EventName) \o <<",", "n", "u", "l", "l", "]">>),
      Event(<<"[">> \o Str(<<"a">>) \o <<",", "{">> \o Str(TypeKey)
                \o <<":">> \o Str(<<"a">>) \o <<"}", "]">>) }

\* New always gives the client a token source.
StreamInit == Init /\ tokenSource

StreamRead ==
    /\ pc = "read"
    /\ \/ /\ ~cancelled
          /\ reads < MaxReads
          /\ \E f \in StreamFrames :
               /\ cur' = f
               /\ reads' = reads + 1
               /\ pc' = "process"
               /\ trace' = Append(trace, Op("read", f, Nil))
               /\ UNCHANGED <<serverValid, tokenSource, query, cancelled,
                              connOpen, deferred, result, returns>>
       \/ LET err == IF cancelled THEN <<"context canceled">> ELSE <<"EOF">>
          IN  Return(Errorf("read", err), Append(trace, Op("read", <<>>, err)))

\* h(name, string(data)) with Stream's handler, and return of its error.
StreamDeliver(name, data) ==
    LET r == StreamHandler(name, data)
        called == IF r.callback THEN Append(trace, Op("callback", data, Nil))
                  ELSE trace
        tr == Append(called, Op("handler", <<name, data>>, r.ret))
    IN  IF r.ret # Nil THEN Return(r.ret, tr) ELSE Goto("read", tr)

StreamProcess ==
    /\ pc = "process"
    /\ LET d == Classify(cur)
       IN  CASE d.kind = "skip" -> Skip
             [] d.kind = "ping" -> Pong
             [] d.kind = "event" -> StreamDeliver(d.name, d.data)

StreamNext ==
    \/ ParseURL
    \/ GetToken
    \/ Dial
    \/ Handshake
    \/ StreamRead
    \/ StreamProcess
    \/ Cancel

StreamSpec == StreamInit /\ [][StreamNext]_vars

----------------------------------------------------------------------------
\* Reading the history.

IsOp(i, op) == i \in 1..Len(trace) /\ trace[i].op = op

Failed(i) == trace[i].err # Nil

\* Entry i is a frame that was read and whose iteration is over.
Processed(i) ==
    /\ IsOp(i, "read")
    /\ ~Failed(i)
    /\ ~(i = Len(trace) /\ pc = "process")

RECURSIVE NextRead(_)
\* The first read after entry i, or one past the end of the history.
NextRead(i) ==
    IF i + 1 > Len(trace) THEN Len(trace) + 1
    ELSE IF trace[i + 1].op = "read" THEN i + 1
    ELSE NextRead(i + 1)

\* What the call did between the read at i and the next read.
Reaction(i) == SubSeq(trace, i + 1, NextRead(i) - 1)

IsHandler(e) == e.op = "handler"
IsWrite(e) == e.op = "write"
IsClose(e) == e.op = "close"

Count(op) == Cardinality({i \in 1..Len(trace) : trace[i].op = op})

\* The frame is "42" followed by a JSON array of at least two elements whose
\* first element is a string.
WellFormedEvent(f) ==
    /\ Len(f) >= 3
    /\ f[1] = "4"
    /\ f[2] = "2"
    /\ LET p == Trim(SliceFrom(f, 2))
       IN  /\ IsBracketed(p, "[", "]")
           /\ ValidValue(p)
           /\ Len(Elements(Inside(p))) >= 2
           /\ IsString(Elements(Inside(p))[1])

ElementOf(f, k) == Elements(Inside(Trim(SliceFrom(f, 2))))[k]

----------------------------------------------------------------------------
\* C1: every well-formed event frame that was processed caused exactly one
\* handler invocation, with the name inside its first element and the text
\* of its second element, placed between its read and the next read (hence
\* one at a time and in arrival order); no frame caused more than one.
C1_EventDeliveredOnceInOrder ==
    \A i \in 1..Len(trace) :
        Processed(i) =>
            LET hs == SelectSeq(Reaction(i), IsHandler)
                f == trace[i].arg
            IN  /\ Len(hs) <= 1
                /\ WellFormedEvent(f) =>
                     /\ Len(hs) = 1
                     /\ hs[1].arg = <<Inside(ElementOf(f, 1)), ElementOf(f, 2)>>

\* Two well-formed events were delivered one after the other, the second
\* with blanks around its data.
C1_Witness ==
    /\ Len(trace) >= 7
    /\ Processed(4) /\ WellFormedEvent(trace[4].arg)
    /\ IsOp(5, "handler") /\ trace[5].arg = <<<<"a">>, <<"1">>>>
    /\ Processed(6) /\ WellFormedEvent(trace[6].arg)
    /\ IsOp(7, "handler") /\ trace[7].arg = <<<<"b">>, <<"[", "1", ",", "2", "]">>>>

\* C2: a processed frame whose first character is '2' is answered by one
\* write of "3" right after its read, with no other write and no handler
\* invocation before the next read.
C2_PingAnsweredByOnePong ==
    \A i \in 1..Len(trace) :
        (Processed(i) /\ trace[i].arg # <<>> /\ trace[i].arg[1] = "2") =>
            LET r == Reaction(i)
            IN  /\ Len(r) >= 1
                /\ r[1].op = "write" /\ r[1].arg = PongFrame
                /\ Len(SelectSeq(r, IsWrite)) = 1
                /\ Len(SelectSeq(r, IsHandler)) = 0

\* A ping with text after its type digit was answered and the next frame read.
C2_Witness ==
    /\ Len(trace) >= 6
    /\ IsOp(4, "read") /\ trace[4].arg = <<"2", "[", "]">>
    /\ IsOp(5, "write") /\ trace[5].arg = PongFrame /\ ~Failed(5)
    /\ IsOp(6, "read") /\ ~Failed(6)

\* C3: once the handler has returned an error the call has returned exactly
\* that error, and all it did afterwards is close the connection.
C3_HandlerErrorStopsCall ==
    \A i \in 1..Len(trace) :
        (IsOp(i, "handler") /\ Failed(i)) =>
            /\ pc = "done"
            /\ returns = 1
            /\ result = trace[i].err
            /\ SubSeq(trace, i + 1, Len(trace)) = <<Op("close", <<>>, Nil)>>

\* The handler accepted a first event and stopped the call on the second.
C3_Witness ==
    /\ Count("handler") = 2
    /\ \E i \in 1..Len(trace) : IsOp(i, "handler") /\ ~Failed(i)
    /\ IsOp(Len(trace) - 1, "handler") /\ Failed(Len(trace) - 1)
    /\ result = HandlerErr

\* C4: when the Token Provider has failed, that failure is the last thing
\* the call did: it has returned a non-nil error and there is no dial, write,
\* read or handler invocation.
C4_TokenFailureNeverDials ==
    \A i \in 1..Len(trace) :
        (IsOp(i, "token") /\ Failed(i)) =>
            /\ i = Len(trace)
            /\ pc = "done"
            /\ result # Nil
            /\ Count("dial") + Count("write") + Count("read") + Count("handler") = 0

\* A configured provider failed.
C4_Witness ==
    /\ tokenSource
    /\ pc = "done"
    /\ IsOp(Len(trace), "token") /\ Failed(Len(trace))

DialSucceeded == \E i \in 1..Len(trace) : IsOp(i, "dial") /\ ~Failed(i)

\* C5: after a successful dial the connection is open and not yet closed
\* while the call runs, and once the call has returned it has been closed
\* exactly once, as the last operation of the call.
C5_ClosedOnceOnEveryExit ==
    /\ (pc # "done" => Count("close") = 0 /\ (DialSucceeded <=> connOpen))
    /\ (pc = "done" /\ DialSucceeded) =>
          /\ Count("close") = 1
          /\ IsOp(Len(trace), "close")
          /\ ~connOpen

\* The call ended on a failed pong write and closed the connection.
C5_Witness ==
    /\ pc = "done"
    /\ Len(trace) >= 2
    /\ IsOp(Len(trace) - 1, "write")
    /\ trace[Len(trace) - 1].arg = PongFrame
    /\ Failed(Len(trace) - 1)
    /\ IsOp(Len(trace), "close")

\* C6: the handler is invoked only for a frame whose first character is '4'
\* (message) and whose second character is '2' (event).
C6_HandlerOnlyForMessageEvent ==
    \A i \in 1..Len(trace) :
        IsOp(i, "handler") =>
            /\ IsOp(i - 1, "read")
            /\ LET f == trace[i - 1].arg
               IN  /\ Len(f) >= 2
                   /\ Atoi(f[1]) = EIOPacketTypeMessage
                   /\ Atoi(f[2]) = PacketTypeEvent

\* The frames C7 is about: the empty frame, the frame "4", a frame whose
\* first character is not a digit, and a frame other than a ping whose
\* second character is not a digit.
Undecodable(f) ==
    \/ f = <<>>
    \/ f = <<"4">>
    \/ (Len(f) >= 1 /\ f[1] \notin Digits)
    \/ (Len(f) >= 2 /\ f[1] \in Digits \ {"2"} /\ f[2] \notin Digits)

\* C7: after a processed frame that is empty, is "4", or has a type
\* character that is not a digit, the call has done nothing but go back to
\* reading: no handler invocation, no write, no return.
C7_UndecodableFrameIgnored ==
    \A i \in 1..Len(trace) :
        (Processed(i) /\ Undecodable(trace[i].arg)) =>
            /\ Reaction(i) = <<>>
            /\ (i = Len(trace) => pc = "read" /\ returns = 0)

\* The open frame and then the frame "4" were read and ignored, and the
\* call is reading again.
C7_Witness ==
    /\ Len(trace) >= 2
    /\ pc = "read"
    /\ IsOp(Len(trace) - 1, "read")
    /\ trace[Len(trace) - 1].arg = <<"0", "{", Q, "s", Q, ":", "1", "}">>
    /\ IsOp(Len(trace), "read")
    /\ trace[Len(trace)].arg = <<"4">>

HandshakeWritten ==
    \E i \in 1..Len(trace) :
        IsOp(i, "write") /\ trace[i].arg = ConnectFrame /\ ~Failed(i)

\* C8: a call that has returned after writing the handshake did so right
\* after a failed read, a failed pong write or a handler error, and returned
\* the error of that cause.
C8_ThreeWaysToEnd ==
    (pc = "done" /\ HandshakeWritten) =>
        LET n == Len(trace) - 1
            e == trace[n]
        IN  /\ n >= 1
            /\ Failed(n)
            /\ \/ e.op = "read" /\ result = Errorf("read", e.err)
               \/ /\ e.op = "write" /\ e.arg = PongFrame
                  /\ result = Errorf("eio pong", e.err)
               \/ e.op = "handler" /\ result = e.err

\* Two frames that are not well-formed events were processed and the call
\* ended only when the following read failed.
C8_Witness ==
    /\ pc = "done"
    /\ reads = 2
    /\ Count("handler") = 0
    /\ \E i \in 1..Len(trace) :
          /\ Processed(i)
          /\ trace[i].arg = <<"4", "2", "[", Q, "a", Q, ",", "1">>
    /\ IsOp(Len(trace) - 1, "read") /\ Failed(Len(trace) - 1)

\* C9: a call whose context is cancelled while it waits in a read
\* eventually returns a non-nil error with the connection closed, and after
\* a failed read nothing but the close follows.
C9_CancelledReadReturns ==
    /\ (cancelled /\ pc = "read") ~> (pc = "done" /\ result # Nil /\ ~connOpen)
    /\ [](\A i \in 1..Len(trace) :
            (IsOp(i, "read") /\ Failed(i)) =>
                /\ pc = "done"
                /\ SubSeq(trace, i + 1, Len(trace)) = <<Op("close", <<>>, Nil)>>)

\* The call was cancelled after reading a frame, and its next read failed
\* with the cancellation.
C9_Witness ==
    /\ cancelled
    /\ pc = "done"
    /\ reads >= 1
    /\ IsOp(Len(trace) - 1, "read")
    /\ trace[Len(trace) - 1].err = <<"context canceled">>
    /\ result = Errorf("read", <<"context canceled">>)
    /\ ~connOpen

\* The last operation of the call before the close, the one that ended it.
LastOp ==
    IF IsOp(Len(trace), "close") THEN trace[Len(trace) - 1] ELSE trace[Len(trace)]

\* C10: the call returns once, and the error it returns can be nil only
\* when the caller cancelled; it is not nil when the call ended on a handler
\* error, a failed read, a failed pong write or a failed setup step.
C10_OneResultNeverCleanOnFailure ==
    /\ returns <= 1
    /\ (pc = "done" <=> returns = 1)
    /\ pc = "done" =>
          /\ (result = Nil => cancelled)
          /\ (/\ LastOp.op \in {"parse", "token", "dial", "write", "read", "handler"}
              /\ LastOp.err # Nil) => result # Nil

\* The call returned the handler's error while the context was not cancelled.
C10_Witness ==
    /\ pc = "done"
    /\ returns = 1
    /\ ~cancelled
    /\ LastOp.op = "handler"
    /\ result = HandlerErr


\* The context each phase puts in front of the error it returns.
PhasePrefix(e) ==
    CASE e.op = "parse" -> "invalid url"
      [] e.op = "token" -> "get token"
      [] e.op = "dial" -> "websocket dial"
      [] e.op = "write" /\ e.arg = ConnectFrame -> "socketio connect to namespace"
      [] e.op = "write" /\ e.arg = PongFrame -> "eio pong"
      [] e.op = "read" -> "read"
      [] e.op = "handler" -> "handler"

\* An error that shows the context and then the cause.
Wrapped(context, cause) == <<context>> \o cause

\* C11 as stated: the error a call has returned is the error of the phase
\* that failed with that phase's context in front of it, for every phase,
\* the handler included.
C11_EveryFatalErrorWrapped ==
    pc = "done" =>
        /\ LastOp.err # Nil
        /\ result = Wrapped(PhasePrefix(LastOp), LastOp.err)

\* C11 amended: the error a call has returned is the error of the phase that
\* failed with that phase's context in front of it when the phase is the
\* address build, the token, the dial, the handshake write, a read or a pong
\* write; a handler error is returned as it is, without context.
C11_FatalErrorWrappedExceptHandler ==
    pc = "done" =>
        /\ LastOp.err # Nil
        /\ result = IF LastOp.op = "handler" THEN LastOp.err
                    ELSE Wrapped(PhasePrefix(LastOp), LastOp.err)

\* A dial failed and the call returned its error behind the dial context.
C11_Witness ==
    /\ pc = "done"
    /\ IsOp(Len(trace), "dial")
    /\ Failed(Len(trace))
    /\ result = <<"websocket dial", "dial failed">>


\* The call ended on a setup step: the address build, the token, the dial
\* or the write of the connect frame.
SetupFailed ==
    /\ pc = "done"
    /\ LastOp.err # Nil
    /\ \/ LastOp.op \in {"parse", "token", "dial"}
       \/ LastOp.op = "write" /\ LastOp.arg = ConnectFrame

\* C12: a call that ended on a setup error returned that error, read no
\* frame and invoked no handler; after a failed address build, token or dial
\* there is no connection and nothing was closed, and after a failed
\* handshake write the connection that was opened has been closed.  A failed
\* write of the connect frame always ends the call.
C12_SetupErrorStartsNoStream ==
    /\ SetupFailed =>
          /\ result = Wrapped(PhasePrefix(LastOp), LastOp.err)
          /\ Count("read") = 0
          /\ Count("handler") = 0
          /\ ~connOpen
          /\ IF LastOp.op = "write"
             THEN DialSucceeded /\ Count("close") = 1 /\ IsOp(Len(trace), "close")
             ELSE ~DialSucceeded /\ Count("close") = 0
    /\ \A i \in 1..Len(trace) :
          (IsOp(i, "write") /\ trace[i].arg = ConnectFrame /\ Failed(i)) =>
              SetupFailed

\* The write of the connect frame failed and the connection was closed.
C12_Witness ==
    /\ SetupFailed
    /\ LastOp.op = "write"
    /\ IsOp(Len(trace), "close")
    /\ result = <<"socketio connect to namespace", "write failed">>

IsConnectWrite(e) == e.op = "write" /\ e.arg = ConnectFrame

\* C13: the operation that follows a successful dial is the write of "40";
\* every read and every pong write comes after a successful write of "40";
\* "40" is written at most once, and exactly once when the loop is running.
C13_HandshakeFirstAndOnce ==
    /\ \A i \in 1..Len(trace) :
          (IsOp(i, "dial") /\ ~Failed(i)) =>
              IF i = Len(trace) THEN pc = "handshake"
              ELSE IsConnectWrite(trace[i + 1])
    /\ \A j \in 1..Len(trace) :
          (IsOp(j, "read") \/ (IsOp(j, "write") /\ trace[j].arg = PongFrame)) =>
              \E i \in 1..(j - 1) : IsConnectWrite(trace[i]) /\ ~Failed(i)
    /\ Len(SelectSeq(trace, IsConnectWrite)) <= 1
    /\ pc \in {"read", "process"} => Len(SelectSeq(trace, IsConnectWrite)) = 1

\* After the handshake a ping was read and answered: "40" was written once,
\* before the read and the pong.
C13_Witness ==
    /\ Len(SelectSeq(trace, IsConnectWrite)) = 1
    /\ Len(trace) >= 3
    /\ IsConnectWrite(trace[Len(trace) - 2])
    /\ IsOp(Len(trace) - 1, "read") /\ trace[Len(trace) - 1].arg = <<"2">>
    /\ IsOp(Len(trace), "write") /\ trace[Len(trace)].arg = PongFrame
    /\ pc = "read"


\* The frames C14 is about: an envelope close frame (first character '1')
\* and an application disconnect frame ("41").
CloseOrDisconnect(f) ==
    \/ (Len(f) >= 1 /\ f[1] = "1")
    \/ (Len(f) >= 2 /\ f[1] = "4" /\ f[2] = "1")

\* C14: after a processed close or disconnect frame the call has invoked no
\* handler, written nothing and not returned: it is reading again, or has
\* gone on to the next read.
C14_CloseAndDisconnectIgnored ==
    \A i \in 1..Len(trace) :
        (Processed(i) /\ CloseOrDisconnect(trace[i].arg)) =>
            /\ Reaction(i) = <<>>
            /\ (i = Len(trace) => pc = "read" /\ returns = 0)

\* The frames C15 is about: "42" followed by something that is not a JSON
\* array of at least two elements whose first element is a string.
MalformedEvent(f) ==
    /\ Len(f) >= 2
    /\ f[1] = "4"
    /\ f[2] = "2"
    /\ ~WellFormedEvent(f)

\* C15: after a processed message/event frame with a malformed payload the
\* call has invoked no handler, written nothing and not returned: it is
\* reading again, or has gone on to the next read.
C15_MalformedEventDiscarded ==
    \A i \in 1..Len(trace) :
        (Processed(i) /\ MalformedEvent(trace[i].arg)) =>
            /\ Reaction(i) = <<>>
            /\ (i = Len(trace) => pc = "read" /\ returns = 0)


\* The values the query q gives to the key.
ValuesOf(q, key) == {p[2] : p \in {r \in q : r[1] = key}}

ElementCount(f) == Len(Elements(Inside(Trim(SliceFrom(f, 2)))))

\* The handler invocations made for the frame read at i.
HandlersOf(i) == SelectSeq(Reaction(i), IsHandler)

\* C17: a processed event frame whose array has more than two elements
\* caused exactly one handler invocation, with the content of the first
\* element and the text of the second; two such frames that agree on their
\* first two elements caused the same invocation, whatever follows.
C17_ExtraElementsIgnored ==
    LET evs == {i \in 1..Len(trace) :
                   Processed(i) /\ WellFormedEvent(trace[i].arg)}
        hs == [i \in evs |-> HandlersOf(i)]
    IN  /\ \A i \in evs :
              ElementCount(trace[i].arg) > 2 =>
                  /\ Len(hs[i]) = 1
                  /\ hs[i][1].arg = <<Inside(ElementOf(trace[i].arg, 1)),
                                     ElementOf(trace[i].arg, 2)>>
        /\ \A i, j \in evs :
              (/\ i < j
               /\ ElementOf(trace[i].arg, 1) = ElementOf(trace[j].arg, 1)
               /\ ElementOf(trace[i].arg, 2) = ElementOf(trace[j].arg, 2)) =>
                  /\ Len(hs[i]) = Len(hs[j])
                  /\ Len(hs[i]) = 1 => hs[i][1].arg = hs[j][1].arg

\* A frame of three elements and then a frame of four elements with the
\* same first two were each delivered once, with the same name and data.
C17_Witness ==
    \E i, j \in 1..Len(trace) :
        /\ i < j
        /\ Processed(i) /\ Processed(j)
        /\ WellFormedEvent(trace[i].arg) /\ WellFormedEvent(trace[j].arg)
        /\ ElementCount(trace[i].arg) = 3
        /\ ElementCount(trace[j].arg) = 4
        /\ Len(HandlersOf(i)) = 1 /\ Len(HandlersOf(j)) = 1
        /\ HandlersOf(i)[1].arg = <<<<"a">>, <<"{", Q, "k", Q, ":", "1", "}">>>>
        /\ HandlersOf(j)[1].arg = HandlersOf(i)[1].arg


Writes == SelectSeq(trace, IsWrite)

IsPingFrame(f) == Len(f) >= 1 /\ f[1] = "2"

\* C18: the frames the call has written are "40" first and then only "3";
\* there are as many writes of "3" (the one that failed and ended the call
\* included) as ping frames processed, and no write follows the read of a
\* frame that is not a ping.
C18_OnlyHandshakeAndPongsWritten ==
    /\ \A k \in 1..Len(Writes) :
          Writes[k].arg = IF k = 1 THEN ConnectFrame ELSE PongFrame
    /\ Cardinality({k \in 1..Len(trace) :
                       IsOp(k, "write") /\ trace[k].arg = PongFrame})
          = Cardinality({i \in 1..Len(trace) :
                            Processed(i) /\ IsPingFrame(trace[i].arg)})
    /\ \A i \in 1..Len(trace) :
          (Processed(i) /\ ~IsPingFrame(trace[i].arg)) =>
              Len(SelectSeq(Reaction(i), IsWrite)) = 0

\* Two pings were answered: the writes are "40", "3", "3".
C18_Witness ==
    /\ Len(Writes) = 3
    /\ Writes[1].arg = ConnectFrame
    /\ Writes[2].arg = PongFrame
    /\ Writes[3].arg = PongFrame
    /\ reads = 2


\* What the call did for the frame read at i, without the outcomes: the
\* operations and their arguments, the closing of the connection left out.
RECURSIVE ShapeOf(_)
ShapeOf(r) ==
    IF r = <<>> THEN <<>>
    ELSE IF Head(r).op = "close" THEN ShapeOf(Tail(r))
    ELSE <<Head(r).op>> \o ShapeOf(Tail(r))

\* A frame that opens the session or acknowledges the namespace was read
\* before entry i.
OpenedBefore(i) ==
    \E j \in 1..(i - 1) :
        /\ IsOp(j, "read")
        /\ ~Failed(j)
        /\ Len(trace[j].arg) >= 1
        /\ (trace[j].arg[1] = "0" \/ trace[j].arg = ConnectFrame)

\* C19: two processed frames with the same content got the same treatment
\* (nothing, a pong, or a handler invocation with the same name and data)
\* whatever was read before them; and a well-formed event frame is delivered
\* also when no open frame and no "40" frame was read before it.
C19_TreatmentDependsOnFrameOnly ==
    LET done == {i \in 1..Len(trace) : Processed(i)}
        re == [i \in done |-> Reaction(i)]
    IN  /\ \A i, j \in done :
              (i < j /\ trace[i].arg = trace[j].arg) =>
                  /\ ShapeOf(re[i]) = ShapeOf(re[j])
                  /\ Len(SelectSeq(re[i], IsHandler)) = Len(SelectSeq(re[j], IsHandler))
                  /\ Len(SelectSeq(re[i], IsHandler)) = 1 =>
                         SelectSeq(re[i], IsHandler)[1].arg
                             = SelectSeq(re[j], IsHandler)[1].arg
        /\ \A i \in done :
              (WellFormedEvent(trace[i].arg) /\ ~OpenedBefore(i)) =>
                  Len(SelectSeq(re[i], IsHandler)) = 1

\* The first frame of the connection was an event and was delivered, and
\* the same frame read again was delivered again.
C19_Witness ==
    /\ Len(trace) >= 5
    /\ IsOp(Len(trace) - 3, "read") /\ trace[Len(trace) - 3].arg = Event(PayloadA1)
    /\ IsOp(Len(trace) - 2, "handler")
    /\ IsOp(Len(trace) - 1, "read") /\ trace[Len(trace) - 1].arg = Event(PayloadA1)
    /\ IsOp(Len(trace), "handler")
    /\ trace[Len(trace)].arg = trace[Len(trace) - 2].arg
    /\ IsConnectWrite(trace[Len(trace) - 4])


\* The loop went on after entry i: it is reading, or has read again.
ContinuedAfter(i) ==
    IF i = Len(trace) THEN pc = "read" /\ returns = 0
    ELSE trace[i + 1].op = "read"

\* C20: in Client.Stream the user's callback is called exactly for the
\* decoded events named "event" whose data decodes as an Event, with that
\* data, after which the stream goes on; an event of another name is dropped
\* and the stream goes on; an "event" whose data does not decode ends the
\* call with the decoding error and no callback.
C20_StreamCallbackOnlyForEvent ==
    /\ \A i \in 1..Len(trace) :
          IsOp(i, "callback") => IsOp(i + 1, "handler")
    /\ \A i \in 1..Len(trace) :
          IsOp(i, "handler") =>
              LET name == trace[i].arg[1]
                  msg == trace[i].arg[2]
                  called == IsOp(i - 1, "callback")
              IN  IF name # EventName
                  THEN ~called /\ ~Failed(i) /\ ContinuedAfter(i)
                  ELSE IF UnmarshalEvent(msg).ok
                  THEN /\ called
                       /\ trace[i - 1].arg = msg
                       /\ ~Failed(i)
                       /\ ContinuedAfter(i)
                  ELSE /\ ~called
                       /\ Failed(i)
                       /\ pc = "done"
                       /\ result = trace[i].err
                       /\ Head(result) = "unmarshal event"
                       /\ SubSeq(trace, i + 1, Len(trace)) = <<Op("close", <<>>, Nil)>>

\* An event of another name was dropped, the next "event" reached the
\* callback, and the stream is reading again.
C20_Witness ==
    /\ pc = "read"
    /\ Count("handler") = 2
    /\ Count("callback") = 1
    /\ IsOp(Len(trace), "handler")
    /\ trace[Len(trace)].arg[1] = EventName
    /\ IsOp(Len(trace) - 1, "callback")
    /\ \E i \in 1..Len(trace) : IsOp(i, "handler") /\ trace[i].arg[1] = <<"a">>

====
